---- MODULE Spec2Model ----
(***************************************************************************)
(* Model of libbcachefs/error.h: the error-reporting macros of bcachefs    *)
(* (bch2_fs_bug, bch2_fs_inconsistent, bch2_fs_fatal_error, the device     *)
(* variants, the non-fatal IO error macros) and the fsck repair macros     *)
(* (__fsck_err_should_fix, __fsck_err, __fsck_err_on and the named modes). *)
(*                                                                         *)
(* A message text is a sequence of tokens, so that "the message contains   *)
(* the reason" is a statement about the formatted text.  Every operation   *)
(* leaves in `last' what it was called with and, in order, what it did.    *)
(***************************************************************************)
EXTENDS Integers, Sequences, FiniteSets, TLC

VARIABLES
    build,          \* "kernel" or "userspace": #ifdef __KERNEL__
    fix_errors,     \* (c)->opts.fix_errors of the filesystem under check
    flags,          \* (c)->flags of the filesystem under check: the bits set
    inconsistent,   \* per filesystem: marked inconsistent
    fatal,          \* per filesystem: in the fatal state
    degraded,       \* per device: non-fatal IO error recorded
    ret,            \* the enclosing function's `ret'
    pc,             \* the enclosing function's position: "check" or "fsck_err"
    nchecks,        \* negotiations the enclosing function has evaluated
    alive,          \* FALSE once BUG() has run
    last,           \* the last operation: its arguments and what it did
    everFixed,      \* some negotiation on the filesystem returned true (history)
    recording,      \* whether ref is being kept (history switch)
    ref,            \* one earlier negotiation, remembered (history)
    io,             \* counts of the non-fatal IO error reports (history)
    thr             \* the threads that set flags concurrently

vars == <<build, fix_errors, flags, inconsistent, fatal, degraded,
          ret, pc, nchecks, alive, last, everFixed, recording, ref, io, thr>>

----------------------------------------------------------------------------
(* The system *)

\* negotiations with a true condition that one enclosing function evaluates
\* at most
MaxChecks == 2

\* non-fatal IO error reports counted in one window of the rate limiter
MaxReports == 2

\* threads that set flags concurrently
NumThreads == 2

Threads == 1..NumThreads

\* the filesystems (struct bch_fs)
Fs == {1, 2}

\* the filesystem the enclosing function of the fsck macros checks
FsckFs == {1}

\* the devices (struct bch_dev)
Devs == {1}

\* (ca)->fs
dev_fs(ca) == 1

----------------------------------------------------------------------------
(* Constants of the source *)

BCH_FSCK_OK == 0
BCH_FSCK_ERRORS_NOT_FIXED == 1
BCH_FSCK_REPAIR_UNIMPLEMENTED == 2
BCH_FSCK_REPAIR_IMPOSSIBLE == 3
BCH_FSCK_UNKNOWN_VERSION == 4

FSCK_ERR_NO == 0
FSCK_ERR_YES == 1
FSCK_ERR_ASK == 2

fsck_err_opts == {FSCK_ERR_NO, FSCK_ERR_YES, FSCK_ERR_ASK}

BCH_FS_FSCK_FIXED_ERRORS == "BCH_FS_FSCK_FIXED_ERRORS"

----------------------------------------------------------------------------
(* Texts *)

\* the caller's message, as tokens
Msg == <<"msg">>

RepairUnimplemented == <<"repair", "unimplemented">>
RunFsckToCorrect == <<"run", "fsck", "to", "correct">>
NotFixing == <<"not", "fixing">>
Halting == <<"Unable", "to", "continue", ",", "halting">>

\* text t contains the tokens of s, contiguously
Contains(t, s) ==
    \E i \in 0..(Len(t) - Len(s)) : SubSeq(t, i + 1, i + Len(s)) = s

\* one thing an operation did: a message on a channel, a bit set, a jump
Ev(kind, text) == [kind |-> kind, text |-> text]

bch_err(text) == Ev("bch_err", text)

printf(text) == Ev("printf", text)

IsMessage(e) == e.kind \in {"bch_err", "printf", "printk"}

Messages(trace) == SelectSeq(trace, IsMessage)

----------------------------------------------------------------------------
(* The fsck repair macros *)

\* what a negotiation on filesystem c reads and writes: c->flags,
\* c->opts.fix_errors and the enclosing function's ret
FsView(c) == [flags |-> flags[c], fix_errors |-> fix_errors[c], ret |-> ret]

\* the kernel branch with the test negated
__fsck_err_should_fix_kernel_negated(cv, msg) ==
    LET _fix == (cv.fix_errors = 0)
    IN  [fix   |-> _fix,
         asked |-> FALSE,
         trace |-> << bch_err(msg \o <<",">>
                              \o (IF _fix THEN <<>> ELSE <<"not">>)
                              \o <<"fixing">>) >>]

\* the kernel branch that fixes only under FSCK_ERR_YES
__fsck_err_should_fix_kernel_yes(cv, msg) ==
    LET _fix == (cv.fix_errors = FSCK_ERR_YES)
    IN  [fix   |-> _fix,
         asked |-> FALSE,
         trace |-> << bch_err(msg \o <<",">>
                              \o (IF _fix THEN <<>> ELSE <<"not">>)
                              \o <<"fixing">>) >>]

\* #ifdef __KERNEL__ branch: bool _fix = (c)->opts.fix_errors, one message
\* msg ", %sfixing" with "" or "not "
__fsck_err_should_fix_kernel(cv, msg) ==
    LET _fix == (cv.fix_errors # 0)
    IN  [fix   |-> _fix,
         asked |-> FALSE,
         trace |-> << bch_err(msg \o <<",">>
                              \o (IF _fix THEN <<>> ELSE <<"not">>)
                              \o <<"fixing">>) >>]

\* the userspace branch that fixes under FSCK_ERR_ASK whatever the answer
__fsck_err_should_fix_user_deaf(cv, msg, yn) ==
    CASE cv.fix_errors = FSCK_ERR_ASK ->
            [fix |-> TRUE, asked |-> TRUE,
             trace |-> << printf(msg \o <<":", "fix?">>) >>]
      [] cv.fix_errors = FSCK_ERR_YES ->
            [fix |-> TRUE, asked |-> FALSE,
             trace |-> << bch_err(msg \o <<",", "fixing">>) >>]
      [] OTHER ->
            [fix |-> FALSE, asked |-> FALSE,
             trace |-> << bch_err(msg) >>]

\* #else branch: the switch on (c)->opts.fix_errors; yn is what ask_yn()
\* returns when it is called
__fsck_err_should_fix_user(cv, msg, yn) ==
    CASE cv.fix_errors = FSCK_ERR_ASK ->
            [fix |-> yn, asked |-> TRUE,
             trace |-> << printf(msg \o <<":", "fix?">>) >>]
      [] cv.fix_errors = FSCK_ERR_YES ->
            [fix |-> TRUE, asked |-> FALSE,
             trace |-> << bch_err(msg \o <<",", "fixing">>) >>]
      [] cv.fix_errors = FSCK_ERR_NO ->
            [fix |-> FALSE, asked |-> FALSE,
             trace |-> << bch_err(msg) >>]
      [] OTHER ->
            [fix |-> FALSE, asked |-> FALSE, trace |-> << >>]

__fsck_err_should_fix(b, cv, msg, yn) ==
    IF b = "kernel"
    THEN __fsck_err_should_fix_kernel(cv, msg)
    ELSE __fsck_err_should_fix_user(cv, msg, yn)

\* the first statement of __fsck_err: _fix, and what was emitted for it
fsck_err_decide(b, cv, _can_fix, _nofix_msg, msg, yn) ==
    IF _can_fix
    THEN __fsck_err_should_fix(b, cv, msg, yn)
    ELSE [fix |-> FALSE, asked |-> FALSE,
          trace |-> << bch_err(msg \o <<"(">> \o _nofix_msg \o <<")">>) >>]

\* the rest of __fsck_err, given the decision r: the bit, the halt, the value
fsck_err_finish(cv, r, _can_ignore) ==
    LET halt == ~r.fix /\ ~_can_ignore
    IN  [fix   |-> r.fix,
         asked |-> r.asked,
         flags |-> IF r.fix
                   THEN cv.flags \cup {BCH_FS_FSCK_FIXED_ERRORS}
                   ELSE cv.flags,
         jump  |-> halt,
         ret   |-> IF halt THEN BCH_FSCK_ERRORS_NOT_FIXED ELSE cv.ret,
         trace |-> r.trace
                   \o (IF r.fix
                       THEN << Ev("set_bit", <<BCH_FS_FSCK_FIXED_ERRORS>>) >>
                       ELSE << >>)
                   \o (IF halt
                       THEN << bch_err(Halting),
                               Ev("goto", <<"fsck_err">>) >>
                       ELSE << >>)]

\* __fsck_err without the goto: ret is set, the checks go on
__fsck_err_no_goto(b, cv, _can_fix, _can_ignore, _nofix_msg, msg, yn) ==
    LET r == fsck_err_finish(cv,
                 fsck_err_decide(b, cv, _can_fix, _nofix_msg, msg, yn),
                 _can_ignore)
    IN  [r EXCEPT !.jump = FALSE,
                  !.trace = SelectSeq(r.trace, LAMBDA e : e.kind # "goto")]

\* __fsck_err that asks __fsck_err_should_fix whatever _can_fix is
__fsck_err_always_asks(b, cv, _can_fix, _can_ignore, _nofix_msg, msg, yn) ==
    fsck_err_finish(cv, __fsck_err_should_fix(b, cv, msg, yn), _can_ignore)

\* __fsck_err without the set_bit
__fsck_err_no_set_bit(b, cv, _can_fix, _can_ignore, _nofix_msg, msg, yn) ==
    LET r == fsck_err_finish(cv,
                 fsck_err_decide(b, cv, _can_fix, _nofix_msg, msg, yn),
                 _can_ignore)
    IN  [r EXCEPT !.flags = cv.flags,
                  !.trace = SelectSeq(r.trace, LAMBDA e : e.kind # "set_bit")]

\* __fsck_err that does not fix once BCH_FS_FSCK_FIXED_ERRORS is set
__fsck_err_fix_once(b, cv, _can_fix, _can_ignore, _nofix_msg, msg, yn) ==
    LET d == fsck_err_decide(b, cv, _can_fix, _nofix_msg, msg, yn)
    IN  fsck_err_finish(cv,
            [d EXCEPT !.fix = @ /\ BCH_FS_FSCK_FIXED_ERRORS \notin cv.flags],
            _can_ignore)

\* __fsck_err that clears the bit when it does not fix
__fsck_err_clear_bit(b, cv, _can_fix, _can_ignore, _nofix_msg, msg, yn) ==
    LET r == fsck_err_finish(cv,
                 fsck_err_decide(b, cv, _can_fix, _nofix_msg, msg, yn),
                 _can_ignore)
    IN  [r EXCEPT !.flags = IF r.fix THEN @
                            ELSE @ \ {BCH_FS_FSCK_FIXED_ERRORS}]

\* __fsck_err that remembers a skipped fix in ret without jumping
__fsck_err_remembers(b, cv, _can_fix, _can_ignore, _nofix_msg, msg, yn) ==
    LET r == fsck_err_finish(cv,
                 fsck_err_decide(b, cv, _can_fix, _nofix_msg, msg, yn),
                 _can_ignore)
    IN  [r EXCEPT !.ret = IF r.fix THEN @ ELSE BCH_FSCK_ERRORS_NOT_FIXED]

\* __fsck_err that halts with BCH_FSCK_REPAIR_IMPOSSIBLE
__fsck_err_impossible(b, cv, _can_fix, _can_ignore, _nofix_msg, msg, yn) ==
    LET r == fsck_err_finish(cv,
                 fsck_err_decide(b, cv, _can_fix, _nofix_msg, msg, yn),
                 _can_ignore)
    IN  [r EXCEPT !.ret = IF r.jump THEN BCH_FSCK_REPAIR_IMPOSSIBLE ELSE @]

\* __fsck_err with change_bit for set_bit
__fsck_err_change_bit(b, cv, _can_fix, _can_ignore, _nofix_msg, msg, yn) ==
    LET r == fsck_err_finish(cv,
                 fsck_err_decide(b, cv, _can_fix, _nofix_msg, msg, yn),
                 _can_ignore)
    IN  [r EXCEPT !.flags =
            IF ~r.fix THEN cv.flags
            ELSE IF BCH_FS_FSCK_FIXED_ERRORS \in cv.flags
                 THEN cv.flags \ {BCH_FS_FSCK_FIXED_ERRORS}
                 ELSE cv.flags \cup {BCH_FS_FSCK_FIXED_ERRORS}]

\* __fsck_err: the value of the statement expression (fix), the new c->flags,
\* the new ret and whether it jumps to fsck_err
__fsck_err(b, cv, _can_fix, _can_ignore, _nofix_msg, msg, yn) ==
    fsck_err_finish(cv,
        fsck_err_decide(b, cv, _can_fix, _nofix_msg, msg, yn),
        _can_ignore)

\* __fsck_err_on that evaluates __fsck_err whatever cond is
__fsck_err_on_any(cond, b, cv, _can_fix, _can_ignore, _nofix_msg, msg, yn) ==
    __fsck_err(b, cv, _can_fix, _can_ignore, _nofix_msg, msg, yn)

\* __fsck_err_on: (cond) ? __fsck_err(...) : false
__fsck_err_on(cond, b, cv, _can_fix, _can_ignore, _nofix_msg, msg, yn) ==
    IF cond
    THEN __fsck_err(b, cv, _can_fix, _can_ignore, _nofix_msg, msg, yn)
    ELSE [fix |-> FALSE, asked |-> FALSE, flags |-> cv.flags,
          jump |-> FALSE, ret |-> cv.ret, trace |-> << >>]

unfixable_fsck_err_on(cond, b, cv, msg, yn) ==
    __fsck_err_on(cond, b, cv, FALSE, TRUE, RepairUnimplemented, msg, yn)

\* need_fsck_err_on with the reason of unfixable_fsck_err_on
need_fsck_err_on_copied(cond, b, cv, msg, yn) ==
    __fsck_err_on(cond, b, cv, FALSE, TRUE, RepairUnimplemented, msg, yn)

need_fsck_err_on(cond, b, cv, msg, yn) ==
    __fsck_err_on(cond, b, cv, FALSE, TRUE, RunFsckToCorrect, msg, yn)

mustfix_fsck_err(b, cv, msg, yn) ==
    __fsck_err(b, cv, TRUE, FALSE, NotFixing, msg, yn)

mustfix_fsck_err_on(cond, b, cv, msg, yn) ==
    __fsck_err_on(cond, b, cv, TRUE, FALSE, NotFixing, msg, yn)

\* fsck_err_on with the arguments of mustfix_fsck_err_on
fsck_err_on_as_mustfix(cond, b, cv, msg, yn) ==
    __fsck_err_on(cond, b, cv, TRUE, FALSE, NotFixing, msg, yn)

fsck_err_on(cond, b, cv, msg, yn) ==
    __fsck_err_on(cond, b, cv, TRUE, TRUE, NotFixing, msg, yn)

----------------------------------------------------------------------------
(* The record of the last operation *)

NoOp ==
    [op |-> "none", c |-> 0, ca |-> 0, cond |-> FALSE,
     can_fix |-> FALSE, can_ignore |-> FALSE, policy |-> 0,
     asked |-> FALSE, yn |-> FALSE, fix |-> FALSE, jump |-> FALSE,
     trace |-> << >>]

\* the record of a negotiation on c that returned r
Negotiated(op, c, cond, _can_fix, _can_ignore, yn, r) ==
    [NoOp EXCEPT !.op = op, !.c = c, !.cond = cond,
                 !.can_fix = _can_fix, !.can_ignore = _can_ignore,
                 !.policy = fix_errors[c],
                 !.asked = r.asked, !.yn = (r.asked /\ yn),
                 !.fix = r.fix, !.jump = r.jump, !.trace = r.trace]

\* the record of a report
Reported(op, c, ca, cond, trace) ==
    [NoOp EXCEPT !.op = op, !.c = c, !.ca = ca, !.cond = cond,
                 !.trace = trace]

\* the inputs and the results of a negotiation, without the filesystem
NoInputs ==
    [set |-> FALSE, can_fix |-> FALSE, can_ignore |-> FALSE, policy |-> 0,
     yn |-> FALSE, fix |-> FALSE, jump |-> FALSE]

Inputs(l) ==
    [set |-> TRUE, can_fix |-> l.can_fix, can_ignore |-> l.can_ignore,
     policy |-> l.policy, yn |-> l.yn, fix |-> l.fix, jump |-> l.jump]

FsckOps == {"unfixable_fsck_err_on", "need_fsck_err_on", "mustfix_fsck_err",
            "mustfix_fsck_err_on", "fsck_err_on"}

\* last is a negotiation whose condition was true (__fsck_err was evaluated)
Evaluated(l) == l.op \in FsckOps /\ l.cond

----------------------------------------------------------------------------
(* The enclosing function of the fsck macros: `ret' starts at BCH_FSCK_OK,   *)
(* the checks run in sequence, and the label fsck_err ends the function.    *)

Unchanged_reports == UNCHANGED <<inconsistent, fatal, degraded, io, thr>>

\* the effect of a negotiation that returned r on filesystem c
Negotiate(rec, c, r) ==
    /\ alive
    /\ pc = "check"
    /\ rec.cond => nchecks < MaxChecks
    /\ nchecks' = IF rec.cond THEN nchecks + 1 ELSE nchecks
    /\ flags' = [flags EXCEPT ![c] = r.flags]
    /\ ret' = r.ret
    /\ pc' = IF r.jump THEN "fsck_err" ELSE pc
    /\ everFixed' = [everFixed EXCEPT ![c] = @ \/ r.fix]
    /\ last' = rec
    /\ ref' \in IF recording /\ rec.cond /\ Evaluated(last)
               THEN {ref, Inputs(last)}
               ELSE {ref}
    /\ Unchanged_reports
    /\ UNCHANGED <<build, fix_errors, alive, recording>>

UnfixableFsckErrOn ==
    \E c \in FsckFs, cond \in BOOLEAN, yn \in BOOLEAN :
        LET r == unfixable_fsck_err_on(cond, build, FsView(c), Msg, yn)
        IN  Negotiate(Negotiated("unfixable_fsck_err_on", c, cond,
                                 FALSE, TRUE, yn, r), c, r)

NeedFsckErrOn ==
    \E c \in FsckFs, cond \in BOOLEAN, yn \in BOOLEAN :
        LET r == need_fsck_err_on(cond, build, FsView(c), Msg, yn)
        IN  Negotiate(Negotiated("need_fsck_err_on", c, cond,
                                 FALSE, TRUE, yn, r), c, r)

MustfixFsckErr ==
    \E c \in FsckFs, yn \in BOOLEAN :
        LET r == mustfix_fsck_err(build, FsView(c), Msg, yn)
        IN  Negotiate(Negotiated("mustfix_fsck_err", c, TRUE,
                                 TRUE, FALSE, yn, r), c, r)

MustfixFsckErrOn ==
    \E c \in FsckFs, cond \in BOOLEAN, yn \in BOOLEAN :
        LET r == mustfix_fsck_err_on(cond, build, FsView(c), Msg, yn)
        IN  Negotiate(Negotiated("mustfix_fsck_err_on", c, cond,
                                 TRUE, FALSE, yn, r), c, r)

FsckErrOn ==
    \E c \in FsckFs, cond \in BOOLEAN, yn \in BOOLEAN :
        LET r == fsck_err_on(cond, build, FsView(c), Msg, yn)
        IN  Negotiate(Negotiated("fsck_err_on", c, cond,
                                 TRUE, TRUE, yn, r), c, r)

\* the checks are over without a jump: control reaches the label
ReachLabel ==
    /\ alive
    /\ pc = "check"
    /\ pc' = "fsck_err"
    /\ UNCHANGED <<build, fix_errors, flags, ret, nchecks, alive, last,
                   everFixed, recording, ref>>
    /\ Unchanged_reports

\* the function returns ret; the next pass starts with ret = BCH_FSCK_OK
StartPass ==
    /\ alive
    /\ pc = "fsck_err"
    /\ pc' = "check"
    /\ ret' = BCH_FSCK_OK
    /\ nchecks' = 0
    /\ UNCHANGED <<build, fix_errors, flags, alive, last, everFixed,
                   recording, ref>>
    /\ Unchanged_reports

----------------------------------------------------------------------------
(* The escalation functions the macros call *)

\* bch2_inconsistent_error that flips the mark
bch2_inconsistent_error_flip(inc, c) == [inc EXCEPT ![c] = ~@]

\* bch2_inconsistent_error(c): the filesystem is marked inconsistent
bch2_inconsistent_error(inc, c) == [inc EXCEPT ![c] = TRUE]

\* bch2_fatal_error(c): the filesystem enters the fatal state
bch2_fatal_error(fat, c) == [fat EXCEPT ![c] = TRUE]

\* bch2_nonfatal_io_error(ca): the error is recorded on the device
bch2_nonfatal_io_error(deg, ca) == [deg EXCEPT ![ca] = TRUE]

\* printk_ratelimited: the message is printed unless the limiter of the call
\* site suppresses it
printk_ratelimited(limited, text) ==
    IF limited THEN << >> ELSE << Ev("printk", text) >>

Call(f) == Ev("call", <<f>>)

----------------------------------------------------------------------------
(* The report macros *)

Unchanged_negotiation ==
    UNCHANGED <<flags, ret, pc, nchecks, everFixed, recording, ref, thr>>

Unchanged_fsck == Unchanged_negotiation /\ UNCHANGED io

\* bch2_fs_bug that returns: bch_err without BUG()
bch2_fs_bug_returns(c) ==
    /\ alive
    /\ last' = Reported("bch2_fs_bug", c, 0, TRUE, << bch_err(Msg) >>)
    /\ UNCHANGED <<build, fix_errors, inconsistent, fatal, degraded, alive>>
    /\ Unchanged_fsck

\* bch2_fs_bug(c, ...): bch_err, then BUG()
bch2_fs_bug(c) ==
    /\ alive
    /\ alive' = FALSE
    /\ last' = Reported("bch2_fs_bug", c, 0, TRUE,
                        << bch_err(Msg), Call("BUG") >>)
    /\ UNCHANGED <<build, fix_errors, inconsistent, fatal, degraded>>
    /\ Unchanged_fsck

\* bch2_fs_bug_on(cond, c, ...)
bch2_fs_bug_on(cond, c) ==
    IF cond
    THEN bch2_fs_bug(c)
    ELSE /\ alive
         /\ last' = Reported("bch2_fs_bug", c, 0, FALSE, << >>)
         /\ UNCHANGED <<build, fix_errors, inconsistent, fatal, degraded,
                        alive>>
         /\ Unchanged_fsck

\* bch2_fs_inconsistent that only logs
bch2_fs_inconsistent_log_only(c) ==
    /\ alive
    /\ last' = Reported("bch2_fs_inconsistent", c, 0, TRUE, << bch_err(Msg) >>)
    /\ UNCHANGED <<build, fix_errors, inconsistent, fatal, degraded, alive>>
    /\ Unchanged_fsck

\* bch2_fs_inconsistent(c, ...): bch_err, then bch2_inconsistent_error(c)
bch2_fs_inconsistent(c) ==
    /\ alive
    /\ inconsistent' = bch2_inconsistent_error(inconsistent, c)
    /\ last' = Reported("bch2_fs_inconsistent", c, 0, TRUE,
                        << bch_err(Msg), Call("bch2_inconsistent_error") >>)
    /\ UNCHANGED <<build, fix_errors, fatal, degraded, alive>>
    /\ Unchanged_fsck

\* bch2_fs_inconsistent_on(cond, c, ...)
bch2_fs_inconsistent_on(cond, c) ==
    IF cond
    THEN bch2_fs_inconsistent(c)
    ELSE /\ alive
         /\ last' = Reported("bch2_fs_inconsistent", c, 0, FALSE, << >>)
         /\ UNCHANGED <<build, fix_errors, inconsistent, fatal, degraded,
                        alive>>
         /\ Unchanged_fsck

\* bch2_dev_inconsistent(ca, ...): bch_err, bch2_inconsistent_error((ca)->fs)
bch2_dev_inconsistent(ca) ==
    /\ alive
    /\ inconsistent' = bch2_inconsistent_error(inconsistent, dev_fs(ca))
    /\ last' = Reported("bch2_dev_inconsistent", dev_fs(ca), ca, TRUE,
                        << bch_err(Msg), Call("bch2_inconsistent_error") >>)
    /\ UNCHANGED <<build, fix_errors, fatal, degraded, alive>>
    /\ Unchanged_fsck

\* bch2_dev_inconsistent_on(cond, ca, ...)
bch2_dev_inconsistent_on(cond, ca) ==
    IF cond
    THEN bch2_dev_inconsistent(ca)
    ELSE /\ alive
         /\ last' = Reported("bch2_dev_inconsistent", dev_fs(ca), ca, FALSE,
                             << >>)
         /\ UNCHANGED <<build, fix_errors, inconsistent, fatal, degraded,
                        alive>>
         /\ Unchanged_fsck

\* bch2_fs_fatal_error that logs after bch2_fatal_error(c)
bch2_fs_fatal_error_late_log(c) ==
    /\ alive
    /\ fatal' = bch2_fatal_error(fatal, c)
    /\ last' = Reported("bch2_fs_fatal_error", c, 0, TRUE,
                        << Call("bch2_fatal_error"), bch_err(Msg) >>)
    /\ UNCHANGED <<build, fix_errors, inconsistent, degraded, alive>>
    /\ Unchanged_fsck

\* bch2_fs_fatal_error(c, ...): bch_err, then bch2_fatal_error(c)
bch2_fs_fatal_error(c) ==
    /\ alive
    /\ fatal' = bch2_fatal_error(fatal, c)
    /\ last' = Reported("bch2_fs_fatal_error", c, 0, TRUE,
                        << bch_err(Msg), Call("bch2_fatal_error") >>)
    /\ UNCHANGED <<build, fix_errors, inconsistent, degraded, alive>>
    /\ Unchanged_fsck

\* bch2_fs_fatal_err_on(cond, c, ...)
bch2_fs_fatal_err_on(cond, c) ==
    IF cond
    THEN bch2_fs_fatal_error(c)
    ELSE /\ alive
         /\ last' = Reported("bch2_fs_fatal_error", c, 0, FALSE, << >>)
         /\ UNCHANGED <<build, fix_errors, inconsistent, fatal, degraded,
                        alive>>
         /\ Unchanged_fsck

\* bch2_dev_fatal_error(ca, ...): bch_err(ca, ...), then bch2_fatal_error(c)
\* where c is whatever `c' names at the place of the call
bch2_dev_fatal_error(ca, c) ==
    /\ alive
    /\ fatal' = bch2_fatal_error(fatal, c)
    /\ last' = Reported("bch2_dev_fatal_error", c, ca, TRUE,
                        << bch_err(Msg), Call("bch2_fatal_error") >>)
    /\ UNCHANGED <<build, fix_errors, inconsistent, degraded, alive>>
    /\ Unchanged_fsck

\* bch2_dev_fatal_io_error(ca, fmt, ...): printk_ratelimited, then
\* bch2_fatal_error((ca)->fs)
bch2_dev_fatal_io_error(ca, limited) ==
    LET site == "bch2_dev_fatal_io_error"
        out  == printk_ratelimited(limited,
                    <<"fatal", "IO", "error", "on", "dev", "for">> \o Msg)
    IN  /\ alive
        /\ fatal' = bch2_fatal_error(fatal, dev_fs(ca))
        /\ last' = Reported(site, dev_fs(ca), ca, TRUE,
                            out \o << Call("bch2_fatal_error") >>)
        /\ UNCHANGED <<build, fix_errors, inconsistent, degraded, alive>>
        /\ Unchanged_fsck

\* bch2_dev_fatal_io_err_on(cond, ca, ...)
bch2_dev_fatal_io_err_on(cond, ca, limited) ==
    IF cond
    THEN bch2_dev_fatal_io_error(ca, limited)
    ELSE /\ alive
         /\ last' = Reported("bch2_dev_fatal_io_error", dev_fs(ca), ca,
                             FALSE, << >>)
         /\ UNCHANGED <<build, fix_errors, inconsistent, fatal, degraded,
                        alive>>
         /\ Unchanged_fsck

\* the counts after one more report that printed msgs messages and made
\* updates calls of bch2_nonfatal_io_error
Counted(cnt, msgs, updates) ==
    IF cnt.on
    THEN [cnt EXCEPT !.calls = @ + 1, !.msgs = @ + msgs,
                     !.updates = @ + updates]
    ELSE cnt

\* bch2_dev_nonfatal_io_error that handles the error only if it logs it
bch2_dev_nonfatal_io_error_quiet(ca, limited) ==
    LET site == "bch2_dev_nonfatal_io_error"
        out  == printk_ratelimited(limited,
                    <<"IO", "error", "on", "dev", "for">> \o Msg)
    IN  /\ alive
        /\ io.on => io.calls < MaxReports
        /\ degraded' = IF limited THEN degraded
                       ELSE bch2_nonfatal_io_error(degraded, ca)
        /\ last' = Reported(site, dev_fs(ca), ca, TRUE,
                            out \o (IF limited THEN << >>
                                    ELSE << Call("bch2_nonfatal_io_error") >>))
        /\ io' = Counted(io, Len(out), IF limited THEN 0 ELSE 1)
        /\ UNCHANGED <<build, fix_errors, inconsistent, fatal, alive>>
        /\ Unchanged_negotiation

\* bch2_dev_nonfatal_io_error(ca, fmt, ...): printk_ratelimited, then
\* bch2_nonfatal_io_error(ca)
bch2_dev_nonfatal_io_error(ca, limited) ==
    LET site == "bch2_dev_nonfatal_io_error"
        out  == printk_ratelimited(limited,
                    <<"IO", "error", "on", "dev", "for">> \o Msg)
    IN  /\ alive
        /\ io.on => io.calls < MaxReports
        /\ degraded' = bch2_nonfatal_io_error(degraded, ca)
        /\ last' = Reported(site, dev_fs(ca), ca, TRUE,
                            out \o << Call("bch2_nonfatal_io_error") >>)
        /\ io' = Counted(io, Len(out), 1)
        /\ UNCHANGED <<build, fix_errors, inconsistent, fatal, alive>>
        /\ Unchanged_negotiation

\* bch2_dev_nonfatal_io_err_on(cond, ca, ...)
bch2_dev_nonfatal_io_err_on(cond, ca, limited) ==
    IF cond
    THEN bch2_dev_nonfatal_io_error(ca, limited)
    ELSE /\ alive
         /\ last' = Reported("bch2_dev_nonfatal_io_error", dev_fs(ca), ca,
                             FALSE, << >>)
         /\ UNCHANGED <<build, fix_errors, inconsistent, fatal, degraded,
                        alive>>
         /\ Unchanged_fsck

----------------------------------------------------------------------------
(* History counters and threads *)

NoCounts == [on |-> FALSE, calls |-> 0, msgs |-> 0, updates |-> 0]

NoThreadOp == [kind |-> "none", c |-> 0]

NoThreads ==
    [on   |-> FALSE,
     pc   |-> [t \in Threads |-> "done"],
     op   |-> [t \in Threads |-> NoThreadOp],
     init |-> [flags |-> {}, inconsistent |-> FALSE, fatal |-> FALSE,
               degraded |-> FALSE]]

----------------------------------------------------------------------------
(* The specification *)

Init0 ==
    /\ build \in {"kernel", "userspace"}
    /\ fix_errors \in [FsckFs -> fsck_err_opts]
    /\ flags = [c \in FsckFs |-> {}]
    /\ inconsistent = [c \in Fs |-> FALSE]
    /\ fatal = [c \in Fs |-> FALSE]
    /\ degraded = [ca \in Devs |-> FALSE]
    /\ ret = BCH_FSCK_OK
    /\ pc = "check"
    /\ nchecks = 0
    /\ alive = TRUE
    /\ last = NoOp
    /\ everFixed = [c \in FsckFs |-> FALSE]
    /\ ref = NoInputs
    /\ thr = NoThreads

Init == Init0 /\ recording = FALSE /\ io = NoCounts

InitDet == Init0 /\ recording = TRUE /\ io = NoCounts

\* the kernel build, where printk_ratelimited limits, with the reports counted
InitIO ==
    /\ Init0
    /\ build = "kernel"
    /\ recording = FALSE
    /\ io = [NoCounts EXCEPT !.on = TRUE]

Next ==
    \/ UnfixableFsckErrOn
    \/ NeedFsckErrOn
    \/ MustfixFsckErr
    \/ MustfixFsckErrOn
    \/ FsckErrOn
    \/ ReachLabel
    \/ StartPass
    \/ \E c \in Fs : bch2_fs_bug(c)
    \/ \E c \in Fs, cond \in BOOLEAN : bch2_fs_bug_on(cond, c)
    \/ \E c \in Fs : bch2_fs_inconsistent(c)
    \/ \E c \in Fs, cond \in BOOLEAN : bch2_fs_inconsistent_on(cond, c)
    \/ \E ca \in Devs : bch2_dev_inconsistent(ca)
    \/ \E ca \in Devs, cond \in BOOLEAN : bch2_dev_inconsistent_on(cond, ca)
    \/ \E c \in Fs : bch2_fs_fatal_error(c)
    \/ \E c \in Fs, cond \in BOOLEAN : bch2_fs_fatal_err_on(cond, c)
    \/ \E ca \in Devs, c \in Fs : bch2_dev_fatal_error(ca, c)
    \/ \E ca \in Devs, lim \in BOOLEAN : bch2_dev_fatal_io_error(ca, lim)
    \/ \E ca \in Devs, cond \in BOOLEAN, lim \in BOOLEAN :
          bch2_dev_fatal_io_err_on(cond, ca, lim)
    \/ \E ca \in Devs, lim \in BOOLEAN : bch2_dev_nonfatal_io_error(ca, lim)
    \/ \E ca \in Devs, cond \in BOOLEAN, lim \in BOOLEAN :
          bch2_dev_nonfatal_io_err_on(cond, ca, lim)

Spec == Init /\ [][Next]_vars

\* the same program, with one earlier negotiation kept in ref
SpecDet == InitDet /\ [][Next]_vars

\* the same program, with the non-fatal IO error reports counted
SpecIO == InitIO /\ [][Next]_vars

\* the operations a thread may be running: each sets one flag
ThreadOps ==
    {[kind |-> "fsck_err_on", c |-> c] : c \in FsckFs}
    \cup {[kind |-> "bch2_fs_inconsistent", c |-> c] : c \in Fs}
    \cup {[kind |-> "bch2_fs_fatal_error", c |-> c] : c \in Fs}
    \cup {[kind |-> "bch2_dev_nonfatal_io_error", c |-> ca] : ca \in Devs}

\* the threads start together in the middle of a session: the flags of the
\* first filesystem and of the device have any value, every thread is about
\* to run one flag-setting operation, and the policy is FSCK_ERR_YES
InitConc ==
    /\ build \in {"kernel"}
    /\ fix_errors = [c \in FsckFs |-> FSCK_ERR_YES]
    /\ flags \in [FsckFs -> SUBSET {BCH_FS_FSCK_FIXED_ERRORS}]
    /\ inconsistent \in {[c \in Fs |-> b /\ c = 1] : b \in BOOLEAN}
    /\ fatal \in {[c \in Fs |-> b /\ c = 1] : b \in BOOLEAN}
    /\ degraded \in [Devs -> BOOLEAN]
    /\ ret = BCH_FSCK_OK
    /\ pc = "check"
    /\ nchecks = 0
    /\ alive = TRUE
    /\ last = NoOp
    /\ everFixed = [c \in FsckFs |-> FALSE]
    /\ recording = FALSE
    /\ ref = NoInputs
    /\ io = NoCounts
    /\ \E ops \in [Threads -> ThreadOps] :
          thr = [on   |-> TRUE,
                 pc   |-> [t \in Threads |-> "log"],
                 op   |-> ops,
                 init |-> [flags |-> flags[1],
                           inconsistent |-> inconsistent[1],
                           fatal |-> fatal[1],
                           degraded |-> degraded[1]]]

\* thread t emits the message of its operation (bch_err, printk_ratelimited)
ThreadLog(t) ==
    /\ thr.on
    /\ thr.pc[t] = "log"
    /\ thr' = [thr EXCEPT !.pc[t] = "set"]
    /\ UNCHANGED <<build, fix_errors, flags, inconsistent, fatal, degraded,
                   ret, pc, nchecks, alive, last, everFixed, recording, ref,
                   io>>

\* thread t sets the flag of its operation, in one atomic step: set_bit of
\* __fsck_err, or the escalation function of the report
ThreadSet(t) ==
    LET o == thr.op[t]
    IN  /\ thr.on
        /\ thr.pc[t] = "set"
        /\ thr' = [thr EXCEPT !.pc[t] = "done"]
        /\ flags' =
              IF o.kind = "fsck_err_on"
              THEN [flags EXCEPT ![o.c] =
                      fsck_err_on(TRUE, build, FsView(o.c), Msg, TRUE).flags]
              ELSE flags
        /\ inconsistent' =
              IF o.kind = "bch2_fs_inconsistent"
              THEN bch2_inconsistent_error(inconsistent, o.c)
              ELSE inconsistent
        /\ fatal' =
              IF o.kind = "bch2_fs_fatal_error"
              THEN bch2_fatal_error(fatal, o.c)
              ELSE fatal
        /\ degraded' =
              IF o.kind = "bch2_dev_nonfatal_io_error"
              THEN bch2_nonfatal_io_error(degraded, o.c)
              ELSE degraded
        /\ UNCHANGED <<build, fix_errors, ret, pc, nchecks, alive, last,
                       everFixed, recording, ref, io>>

NextConc ==
    \/ \E t \in Threads : ThreadLog(t)
    \/ \E t \in Threads : ThreadSet(t)

\* threads that run the flag-setting operations concurrently
SpecConc == InitConc /\ [][NextConc]_vars

----------------------------------------------------------------------------
(* Properties *)

FixedBit(c) == BCH_FS_FSCK_FIXED_ERRORS \in flags[c]

\* this step evaluates __fsck_err: a negotiation whose condition is true
NegStep == nchecks' = nchecks + 1

\* this step starts a new pass
NewPass == pc = "fsck_err" /\ pc' = "check"

\* C1: as soon as a negotiation with a true condition ends not fixed with
\* _can_ignore false, ret becomes BCH_FSCK_ERRORS_NOT_FIXED and control is at
\* fsck_err; from there until the next pass starts no negotiation runs: the
\* last operation is never again a fsck macro's, and c->flags, ret and the
\* count of negotiations stay as they are.
C1_AbortEndsPass ==
    [][ /\ (NegStep /\ ~last'.fix /\ ~last'.can_ignore)
            => (ret' = BCH_FSCK_ERRORS_NOT_FIXED /\ pc' = "fsck_err"
                /\ last'.jump)
        /\ (pc = "fsck_err" /\ ret = BCH_FSCK_ERRORS_NOT_FIXED /\ ~NewPass)
            => /\ UNCHANGED <<flags, ret, pc, nchecks, everFixed>>
               /\ (last' = last \/ last'.op \notin FsckOps)
      ]_vars

\* a pass was aborted by a mandatory fix that was not made, and a report was
\* made afterwards
C1_Witness ==
    /\ pc = "fsck_err"
    /\ ret = BCH_FSCK_ERRORS_NOT_FIXED
    /\ nchecks = 2
    /\ last.op = "bch2_fs_inconsistent"

C3_FixedFlagIffFixed ==
    \A c \in FsckFs : FixedBit(c) <=> everFixed[c]

\* a fix was made, and an escalation report followed it
C3_Witness ==
    /\ everFixed[1]
    /\ FixedBit(1)
    /\ last.op = "bch2_fs_fatal_error"
    /\ last.cond

\* C4: a fsck macro whose condition is false emits nothing, asks nothing,
\* returns false, does not jump, and leaves every flag, ret and the position
\* of the enclosing function as they were.
C4_FalseConditionNoOp ==
    [][ ( /\ last'.op \in FsckOps
          /\ ~last'.cond
          /\ (last' # last \/ (pc = "check" /\ pc' = "check")) )
            => /\ last'.trace = << >>
               /\ ~last'.asked /\ ~last'.fix /\ ~last'.jump
               /\ UNCHANGED <<flags, ret, pc, nchecks, inconsistent, fatal,
                              degraded, alive, everFixed>>
      ]_vars

\* a mandatory fix with a false condition was the last operation, under the
\* policy FSCK_ERR_NO, and the pass goes on
C4_Witness ==
    /\ last.op = "mustfix_fsck_err_on"
    /\ ~last.cond
    /\ last.policy = FSCK_ERR_NO
    /\ pc = "check"
    /\ ret = BCH_FSCK_OK

\* the modes of the table
Unfixable == {"unfixable_fsck_err_on", "need_fsck_err_on"}
Mandatory == {"mustfix_fsck_err", "mustfix_fsck_err_on"}
BestEffort == {"fsck_err_on"}

\* C5: with a true condition and the policy FSCK_ERR_YES or FSCK_ERR_NO the
\* modes do what the table says: the unfixable modes return false without a
\* jump; the mandatory fix returns true without a jump under YES, and false
\* with a jump and ret = BCH_FSCK_ERRORS_NOT_FIXED under NO; the best-effort
\* fix returns true under YES and false under NO, without a jump.
C5_TableFidelity ==
    [][ (NegStep /\ last'.policy \in {FSCK_ERR_YES, FSCK_ERR_NO})
            => LET l == last'
                   always == (l.policy = FSCK_ERR_YES)
                   cont == (pc' = "check" /\ ret' = ret /\ ~l.jump)
               IN  /\ l.op \in Unfixable => (~l.fix /\ cont)
                   /\ (l.op \in Mandatory /\ always) => (l.fix /\ cont)
                   /\ (l.op \in Mandatory /\ ~always)
                        => /\ ~l.fix /\ l.jump
                           /\ pc' = "fsck_err"
                           /\ ret' = BCH_FSCK_ERRORS_NOT_FIXED
                   /\ (l.op \in BestEffort /\ always)
                        => (l.fix /\ cont /\ BCH_FS_FSCK_FIXED_ERRORS \in flags'[l.c])
                   /\ (l.op \in BestEffort /\ ~always) => (~l.fix /\ cont)
                   /\ l.fix => BCH_FS_FSCK_FIXED_ERRORS \in flags'[l.c]
      ]_vars

\* a best-effort fix was skipped under FSCK_ERR_NO and the pass goes on
C5_Witness ==
    /\ last.op = "fsck_err_on"
    /\ last.cond
    /\ last.policy = FSCK_ERR_NO
    /\ ~last.fix
    /\ pc = "check"
    /\ nchecks = 1

\* some message of the trace contains the text
Shows(trace, text) ==
    \E i \in 1..Len(Messages(trace)) : Contains(Messages(trace)[i].text, text)

\* C6: whenever a mandatory or best-effort fix with a true condition is not
\* made, a message emitted for it shows the reason "not fixing".
C6_SkippedShowsNotFixing ==
    [][ (NegStep /\ last'.op \in (Mandatory \cup BestEffort) /\ ~last'.fix)
            => Shows(last'.trace, NotFixing) ]_vars

\* the reason of a mode whose fix is not implemented
ReasonOf(op) ==
    IF op = "unfixable_fsck_err_on" THEN RepairUnimplemented
    ELSE RunFsckToCorrect

\* C7: with a true condition and _can_fix false (unfixable_fsck_err_on,
\* need_fsck_err_on) the policy is not consulted: under every policy nothing
\* is asked, exactly one message is emitted and it carries the reason of the
\* mode, the value is false, c->flags is unchanged and there is no jump.
C7_UnfixableIgnoresPolicy ==
    [][ (NegStep /\ ~last'.can_fix)
            => LET l == last'
               IN  /\ l.op \in Unfixable
                   /\ ~l.asked
                   /\ Len(Messages(l.trace)) = 1
                   /\ Len(l.trace) = 1
                   /\ l.trace[1].text = Msg \o <<"(">> \o ReasonOf(l.op)
                                            \o <<")">>
                   /\ Contains(l.trace[1].text, ReasonOf(l.op))
                   /\ ~l.fix /\ ~l.jump
                   /\ UNCHANGED <<flags, ret, pc>>
      ]_vars

\* need_fsck_err_on ran with a true condition under the policy FSCK_ERR_ASK
C7_Witness ==
    /\ last.op = "need_fsck_err_on"
    /\ last.cond
    /\ last.policy = FSCK_ERR_ASK
    /\ Shows(last.trace, RunFsckToCorrect)
    /\ pc = "check"

\* C8: two negotiations with the same _can_fix, _can_ignore, policy and
\* answer return the same value and jump alike, whatever happened between
\* them: ref is a negotiation made before the one in last.
C8_Deterministic ==
    ( /\ ref.set
      /\ Evaluated(last)
      /\ ref.can_fix = last.can_fix
      /\ ref.can_ignore = last.can_ignore
      /\ ref.policy = last.policy
      /\ ref.yn = last.yn )
        => (ref.fix = last.fix /\ ref.jump = last.jump)

\* two negotiations with the same inputs both fixed, the second one made
\* after the first had set the bit and after reports had set other flags
C8_Witness ==
    /\ ref.set
    /\ Evaluated(last)
    /\ Inputs(last) = ref
    /\ last.fix
    /\ inconsistent[1] /\ fatal[2] /\ degraded[1]

\* the reports that mark the filesystem inconsistent or fatal
InconsistentOps == {"bch2_fs_inconsistent", "bch2_dev_inconsistent"}
FatalOps == {"bch2_fs_fatal_error", "bch2_dev_fatal_error",
             "bch2_dev_fatal_io_error"}

\* C9: a report that marks the filesystem inconsistent or fatal leaves the
\* mark set, and the same report made again right after it changes no flag
\* of any filesystem or device; each of bch2_fs_inconsistent and
\* bch2_fs_fatal_error emits one message per call.
C9_ReportsIdempotent ==
    /\ [](last.cond =>
            /\ last.op \in InconsistentOps => inconsistent[last.c]
            /\ last.op \in FatalOps => fatal[last.c]
            /\ last.op \in {"bch2_fs_inconsistent", "bch2_fs_fatal_error"}
                 => Len(Messages(last.trace)) = 1)
    /\ [][ ( /\ last'.op \in (InconsistentOps \cup FatalOps)
             /\ last'.cond /\ last.cond
             /\ last.op = last'.op /\ last.c = last'.c /\ last.ca = last'.ca )
               => UNCHANGED <<inconsistent, fatal, degraded, flags,
                              fix_errors>>
         ]_vars

\* both filesystems were marked, the second one last
C9_Witness ==
    /\ last.op = "bch2_fs_inconsistent"
    /\ last.cond
    /\ last.c = 2
    /\ inconsistent[1] /\ inconsistent[2]
    /\ fatal[1]

\* C10: no step clears a flag: inconsistent, fatal, degraded and
\* BCH_FS_FSCK_FIXED_ERRORS stay set once they are set.
C10_FlagsMonotonic ==
    [][ /\ \A c \in Fs : /\ inconsistent[c] => inconsistent'[c]
                         /\ fatal[c] => fatal'[c]
        /\ \A ca \in Devs : degraded[ca] => degraded'[ca]
        /\ \A c \in FsckFs : flags[c] \subseteq flags'[c]
      ]_vars

\* every flag is set and a negotiation that did not fix came afterwards
C10_Witness ==
    /\ inconsistent[1] /\ fatal[1] /\ degraded[1] /\ FixedBit(1)
    /\ Evaluated(last)
    /\ ~last.fix

\* C11: bch2_fs_bug emits one message and then BUG() ends the process:
\* nothing happens afterwards; bch2_fs_bug_on does this exactly if its
\* condition is true, and does nothing otherwise.
C11_BugTerminates ==
    /\ []((last.op = "bch2_fs_bug" /\ last.cond)
            => /\ ~alive
               /\ last.trace = << bch_err(Msg), Call("BUG") >>
               /\ Len(Messages(last.trace)) = 1)
    /\ []((last.op = "bch2_fs_bug" /\ ~last.cond)
            => (alive /\ last.trace = << >>))
    /\ [](~alive => (last.op = "bch2_fs_bug" /\ last.cond))
    /\ [][alive]_vars

\* the process was ended by a bug report on the second filesystem after a
\* negotiation had fixed something
C11_Witness ==
    /\ ~alive
    /\ last.op = "bch2_fs_bug"
    /\ last.c = 2
    /\ FixedBit(1)

\* what the reports and negotiations do beyond logging: BUG(), the calls of
\* the escalation functions, the jump to fsck_err
Destructive(e) == e.kind \in {"call", "goto"}

RateLimitedOps == {"bch2_dev_fatal_io_error", "bch2_dev_nonfatal_io_error"}

\* C12 as stated: in every operation each destructive action comes right
\* after a message of the same operation.
C12_MessageBeforeAction ==
    \A i \in 1..Len(last.trace) :
        Destructive(last.trace[i]) => (i > 1 /\ IsMessage(last.trace[i - 1]))

\* C12 as amended: each destructive action comes right after a message of
\* the same operation, except in a rate-limited report whose message was
\* suppressed: there the action is the only thing the report does.
C12_MessageBeforeActionUnlessLimited ==
    \A i \in 1..Len(last.trace) :
        Destructive(last.trace[i])
            => \/ (i > 1 /\ IsMessage(last.trace[i - 1]))
               \/ (last.op \in RateLimitedOps /\ Len(last.trace) = 1)

\* a non-fatal IO error was recorded on the device while its message was
\* suppressed
C12_Witness ==
    /\ last.op = "bch2_dev_nonfatal_io_error"
    /\ last.cond
    /\ Messages(last.trace) = << >>
    /\ degraded[1]

DevFatalOps == {"bch2_dev_fatal_error", "bch2_dev_fatal_io_error"}

\* C14: a fatal report on a device puts the filesystem of that device,
\* (ca)->fs, into the fatal state and no other filesystem.
C14_DevFatalHitsOwner ==
    [][ (last'.op \in DevFatalOps /\ last'.cond /\ last' # last)
            => fatal' = [fatal EXCEPT ![dev_fs(last'.ca)] = TRUE] ]_vars

\* C16: a negotiation that is not fixed and may be ignored leaves ret at
\* BCH_FSCK_OK, the position at the checks and every flag as it was; a
\* negotiation after it in the same pass that is not fixed and may not be
\* ignored still jumps with ret = BCH_FSCK_ERRORS_NOT_FIXED; and ret leaves
\* BCH_FSCK_OK only by such a negotiation.
C16_IgnorableSkipContinues ==
    /\ [][ (NegStep /\ ~last'.fix /\ last'.can_ignore)
             => /\ pc' = "check"
                /\ ret' = BCH_FSCK_OK
                /\ UNCHANGED <<flags, inconsistent, fatal, degraded>>
         ]_vars
    /\ [][ ( /\ Evaluated(last) /\ ~last.fix /\ last.can_ignore
             /\ nchecks >= 1
             /\ NegStep /\ ~last'.fix /\ ~last'.can_ignore )
             => (pc' = "fsck_err" /\ ret' = BCH_FSCK_ERRORS_NOT_FIXED)
         ]_vars
    /\ [][ (ret' # ret /\ ret' # BCH_FSCK_OK)
             => (NegStep /\ ~last'.fix /\ ~last'.can_ignore) ]_vars

\* under FSCK_ERR_NO the first negotiation of the pass was skipped and
\* ignored, the second one halted the pass
C16_Witness ==
    /\ last.policy = FSCK_ERR_NO
    /\ Evaluated(last)
    /\ last.jump
    /\ nchecks = 2
    /\ pc = "fsck_err"
    /\ ret = BCH_FSCK_ERRORS_NOT_FIXED

Prompts(trace) == SelectSeq(trace, LAMBDA e : e.kind = "printf")

\* C17: in the userspace build under FSCK_ERR_ASK a fixable negotiation with
\* a true condition prompts once and takes the answer: it fixes (the bit is
\* set, no jump) exactly if the answer is yes; on no it does not fix, and it
\* jumps exactly if _can_ignore is false.
C17_AskFollowsAnswer ==
    [][ ( /\ NegStep /\ build = "userspace"
          /\ last'.policy = FSCK_ERR_ASK /\ last'.can_fix )
            => LET l == last'
               IN  /\ l.asked
                   /\ Len(Prompts(l.trace)) = 1
                   /\ l.trace[1] = printf(Msg \o <<":", "fix?">>)
                   /\ l.fix <=> l.yn
                   /\ l.fix => /\ BCH_FS_FSCK_FIXED_ERRORS \in flags'[l.c]
                               /\ ~l.jump /\ pc' = "check" /\ ret' = ret
                   /\ ~l.fix => /\ flags' = flags
                                /\ l.jump <=> ~l.can_ignore
                                /\ (pc' = "fsck_err") <=> ~l.can_ignore
      ]_vars

\* the operator answered no to a mandatory fix
C17_Witness ==
    /\ build = "userspace"
    /\ last.op = "mustfix_fsck_err_on"
    /\ last.cond
    /\ last.asked /\ ~last.yn
    /\ last.jump
    /\ pc = "fsck_err"

OtherBuild(b) == IF b = "kernel" THEN "userspace" ELSE "kernel"

\* C18: under FSCK_ERR_YES and FSCK_ERR_NO the two builds agree: every
\* negotiation with a true condition returns, sets, leaves in ret and jumps
\* as the other build's __fsck_err does from the same state; and in every
\* state the two builds agree for every _can_fix and _can_ignore.
C18_BuildsAgree ==
    /\ [][ (NegStep /\ last'.policy \in {FSCK_ERR_YES, FSCK_ERR_NO})
             => LET l == last'
                    o == __fsck_err(OtherBuild(build), FsView(l.c),
                                    l.can_fix, l.can_ignore, NotFixing,
                                    Msg, l.yn)
                IN  /\ o.fix = l.fix
                    /\ o.flags = flags'[l.c]
                    /\ o.jump = l.jump
                    /\ o.jump <=> (pc' = "fsck_err")
                    /\ o.ret = ret'
         ]_vars
    /\ [](\A c \in FsckFs, p \in {FSCK_ERR_YES, FSCK_ERR_NO},
             cf \in BOOLEAN, ci \in BOOLEAN :
            LET v == [FsView(c) EXCEPT !.fix_errors = p]
                k == __fsck_err("kernel", v, cf, ci, NotFixing, Msg, FALSE)
                u == __fsck_err("userspace", v, cf, ci, NotFixing, Msg, FALSE)
            IN  /\ k.fix = u.fix
                /\ k.flags = u.flags
                /\ k.jump = u.jump
                /\ k.ret = u.ret)

\* a fix was made in the userspace build under FSCK_ERR_YES
C18_Witness ==
    /\ build = "userspace"
    /\ Evaluated(last)
    /\ last.policy = FSCK_ERR_YES
    /\ last.fix
    /\ FixedBit(1)

\* C19: in the kernel build a negotiation never asks; a fixable one with a
\* true condition fixes under every policy but FSCK_ERR_NO, FSCK_ERR_ASK
\* included, and does not fix under FSCK_ERR_NO.
C19_KernelNeverAsks ==
    [][ (NegStep /\ build = "kernel")
            => LET l == last'
               IN  /\ ~l.asked
                   /\ Prompts(l.trace) = << >>
                   /\ l.can_fix => (l.fix <=> l.policy # FSCK_ERR_NO)
      ]_vars

\* the kernel build fixed under FSCK_ERR_ASK without asking
C19_Witness ==
    /\ build = "kernel"
    /\ Evaluated(last)
    /\ last.can_fix
    /\ last.policy = FSCK_ERR_ASK
    /\ last.fix /\ ~last.asked

\* C20: no negotiation both fixes and jumps, and ret is never anything but
\* BCH_FSCK_OK or BCH_FSCK_ERRORS_NOT_FIXED.
C20_OnlyTwoResults ==
    /\ ret \in {BCH_FSCK_OK, BCH_FSCK_ERRORS_NOT_FIXED}
    /\ ret \notin {BCH_FSCK_REPAIR_UNIMPLEMENTED, BCH_FSCK_REPAIR_IMPOSSIBLE,
                   BCH_FSCK_UNKNOWN_VERSION}
    /\ Evaluated(last) => ~(last.fix /\ last.jump)

\* a pass whose last negotiation was "repair unimplemented" ended with
\* BCH_FSCK_OK
C20_Witness ==
    /\ last.op = "unfixable_fsck_err_on"
    /\ last.cond
    /\ pc = "fsck_err"
    /\ ret = BCH_FSCK_OK

\* C13 as stated: the reports of non-fatal IO errors counted so far printed
\* fewer messages than there were reports, and each report made its update.
C13_FewerEmissions ==
    (io.on /\ io.calls >= 1)
        => (io.msgs < io.calls /\ io.updates = io.calls)

\* C13 as amended: N reports print at most N messages and make exactly N
\* updates; after a rate-limited report, fatal or not, the mark is set and
\* the escalation function was called, whether the message was printed or
\* suppressed.
C13_UpdatesNeverSuppressed ==
    /\ io.on => /\ io.msgs <= io.calls
                /\ io.updates = io.calls
                /\ io.calls >= 1 => \E ca \in Devs : degraded[ca]
    /\ (last.op = "bch2_dev_nonfatal_io_error" /\ last.cond)
         => /\ degraded[last.ca]
            /\ last.trace[Len(last.trace)] = Call("bch2_nonfatal_io_error")
    /\ (last.op = "bch2_dev_fatal_io_error" /\ last.cond)
         => /\ fatal[dev_fs(last.ca)]
            /\ last.trace[Len(last.trace)] = Call("bch2_fatal_error")

\* two reports, one message: the second report was suppressed and still
\* made its update
C13_Witness ==
    /\ io.on
    /\ io.calls = 2 /\ io.msgs = 1 /\ io.updates = 2
    /\ last.op = "bch2_dev_nonfatal_io_error"
    /\ Messages(last.trace) = << >>
    /\ degraded[1]

\* thread t runs the operation kind on c
Runs(t, kind, c) == thr.op[t] = [kind |-> kind, c |-> c]

\* some thread has set the flag of kind on c
Done(kind, c) == \E t \in Threads : thr.pc[t] = "done" /\ Runs(t, kind, c)

\* some thread was started to set the flag of kind on c
Requested(kind, c) == \E t \in Threads : Runs(t, kind, c)

\* the value a flag of filesystem or device c had when the threads started
Initially(field, c) == IF c = 1 THEN thr.init[field] ELSE FALSE

\* each flag is the OR of its initial value and the sets that Has names
FlagsAreOr(Has(_, _)) ==
    /\ \A c \in FsckFs :
         FixedBit(c) <=> \/ BCH_FS_FSCK_FIXED_ERRORS \in thr.init.flags
                         \/ Has("fsck_err_on", c)
    /\ \A c \in Fs :
         /\ inconsistent[c] <=> \/ Initially("inconsistent", c)
                                \/ Has("bch2_fs_inconsistent", c)
         /\ fatal[c] <=> \/ Initially("fatal", c)
                         \/ Has("bch2_fs_fatal_error", c)
    /\ \A ca \in Devs :
         degraded[ca] <=> \/ Initially("degraded", ca)
                          \/ Has("bch2_dev_nonfatal_io_error", ca)

\* C15: while threads set flags concurrently, each flag is the OR of its
\* initial value and the sets of the threads that have made theirs, so no
\* set is lost; when all threads are done, each flag is the OR of its
\* initial value and the sets requested, whatever the interleaving was.
C15_ConcurrentSetsAreOr ==
    thr.on =>
        /\ FlagsAreOr(Done)
        /\ (\A t \in Threads : thr.pc[t] = "done") => FlagsAreOr(Requested)

\* two threads have both set BCH_FS_FSCK_FIXED_ERRORS, which was clear when
\* they started
C15_Witness ==
    /\ thr.on
    /\ \A t \in Threads : thr.pc[t] = "done"
    /\ thr.op[1].kind = "fsck_err_on" /\ thr.op[2].kind = "fsck_err_on"
    /\ thr.init.flags = {}
    /\ FixedBit(1)

====
